---- MODULE Spec2Model ----
(***************************************************************************)
(* http-responses-ts: HTTP outcomes as values.  The library is three       *)
(* files of classes: src/index.ts and src/responses.ts (HttpResponse and   *)
(* its named variants) and src/unnamed/part_001 (HttpError, which extends  *)
(* the native Error, and its named variants; called "errors" below).       *)
(*                                                                         *)
(* JavaScript values.  A string is a TLA+ string, a number an integer.     *)
(* `undefined` is the absence of a key: an options object, an argument     *)
(* list and an object's own properties are functions from the keys that    *)
(* hold a value to those values, and a key that is not in the DOMAIN       *)
(* reads as undefined.  (A property assigned undefined reads the same as a *)
(* property never assigned; the model does not tell them apart.)           *)
(*                                                                         *)
(* The model is of the code that runs: TypeScript's `readonly`, `?` and    *)
(* parameter-count checks are erased by compilation, and values of type    *)
(* `any` (a caught exception, `e.code` in the README's axios example)      *)
(* reach the library unchecked.                                            *)
(***************************************************************************)
EXTENDS Integers, Sequences, FiniteSets, TLC

VARIABLES
    registry,   \* http-status-codes' table: status code -> reason phrase
    heap,       \* the Outcome objects constructed so far, oldest first
    call        \* the latest `new ...(...)` or caller assignment, and the
                \* number n of `new` expressions evaluated so far

vars == <<registry, heap, call>>

\* The number of `new` expressions a behaviour evaluates.
MaxCalls == 1

-----------------------------------------------------------------------------
(* Objects and values *)

\* o[k], where k may be missing: whether it holds a value other than undefined.
Has(o, k) == k \in DOMAIN o

\* JavaScript's truthiness of the string-or-undefined o[k], as `o[k] || ...`
\* tests it: undefined and "" are falsy, every other string is truthy.
Truthy(o, k) == Has(o, k) /\ o[k] # ""

\* this[k] = v
Put(this, k, v) == (k :> v) @@ this

\* this[k] = src[k], where src[k] may be undefined.
PutFrom(this, k, src) ==
    IF Has(src, k) THEN Put(this, k, src[k])
    ELSE [f \in DOMAIN this \ {k} |-> this[f]]

\* An object with no own properties.
EmptyObject == [f \in {} |-> ""]

-----------------------------------------------------------------------------
(* The status registry: the http-status-codes package, external to the     *)
(* repository.  getStatusText returns the reason phrase of a code it knows *)
(* and throws for every other argument, undefined included.                *)

StatusTexts ==
    (100 :> "Continue") @@ (101 :> "Switching Protocols") @@
    (102 :> "Processing") @@ (200 :> "OK") @@ (201 :> "Created") @@
    (202 :> "Accepted") @@ (203 :> "Non Authoritative Information") @@
    (204 :> "No Content") @@ (205 :> "Reset Content") @@
    (206 :> "Partial Content") @@ (207 :> "Multi-Status") @@
    (300 :> "Multiple Choices") @@ (301 :> "Moved Permanently") @@
    (302 :> "Moved Temporarily") @@ (303 :> "See Other") @@
    (304 :> "Not Modified") @@ (305 :> "Use Proxy") @@
    (307 :> "Temporary Redirect") @@ (308 :> "Permanent Redirect") @@
    (400 :> "Bad Request") @@ (401 :> "Unauthorized") @@
    (402 :> "Payment Required") @@ (403 :> "Forbidden") @@
    (404 :> "Not Found") @@ (405 :> "Method Not Allowed") @@
    (406 :> "Not Acceptable") @@ (407 :> "Proxy Authentication Required") @@
    (408 :> "Request Timeout") @@ (409 :> "Conflict") @@ (410 :> "Gone") @@
    (411 :> "Length Required") @@ (412 :> "Precondition Failed") @@
    (413 :> "Request Entity Too Large") @@ (414 :> "Request-URI Too Long") @@
    (415 :> "Unsupported Media Type") @@
    (416 :> "Requested Range Not Satisfiable") @@
    (417 :> "Expectation Failed") @@ (418 :> "I'm a teapot") @@
    (419 :> "Insufficient Space on Resource") @@ (420 :> "Method Failure") @@
    (422 :> "Unprocessable Entity") @@ (423 :> "Locked") @@
    (424 :> "Failed Dependency") @@ (428 :> "Precondition Required") @@
    (429 :> "Too Many Requests") @@
    (431 :> "Request Header Fields Too Large") @@
    (500 :> "Server Error") @@ (501 :> "Not Implemented") @@
    (502 :> "Bad Gateway") @@ (503 :> "Service Unavailable") @@
    (504 :> "Gateway Timeout") @@ (505 :> "HTTP Version Not Supported") @@
    (507 :> "Insufficient Storage") @@
    (511 :> "Network Authentication Required")

\* HttpStatus.getStatusText(options.statusCode): a completion, either a
\* returned phrase or a thrown error.
getStatusText(options) ==
    IF Has(options, "statusCode") /\ options.statusCode \in DOMAIN registry
    THEN [threw |-> FALSE, value |-> registry[options.statusCode]]
    ELSE [threw |-> TRUE, error |-> "Status code does not exist"]

-----------------------------------------------------------------------------
(* What a constructor call leaves behind: whether it threw, the new object's *)
(* own properties or the error, and the two things of the caller's the body *)
(* can reach, as the body leaves them: the argument list it was passed and  *)
(* the registry module.                                                     *)

NormalCompletion(this, arguments) ==
    [threw |-> FALSE, this |-> this,
     arguments |-> arguments, registry |-> registry]

ThrowCompletion(error, arguments) ==
    [threw |-> TRUE, error |-> error,
     arguments |-> arguments, registry |-> registry]

-----------------------------------------------------------------------------
(* Slips: the constructors and the variants' super(...) call, each with    *)
(* one change a maintainer could make.  Every property below is checked to *)
(* tell the code from one of them.                                         *)

\* The object the constructor body leaves, given the status it resolved.
WithStatus(options, status) ==
    PutFrom(Put(Put(EmptyObject, "status", status), "message",
                IF Truthy(options, "message") THEN options.message ELSE status),
            "statusCode", options)

\* The status the constructor body resolves.
ResolvedStatus(options) ==
    IF Truthy(options, "status") THEN options.status
    ELSE IF getStatusText(options).threw THEN "Unknown"
    ELSE getStatusText(options).value

\* catch (e) { this.status = 'Unkown' }: the README's spelling.
HttpResponse_Unkown(arguments) ==
    IF arguments = <<>> THEN ThrowCompletion("TypeError", arguments)
    ELSE LET options == arguments[1]
             status == IF Truthy(options, "status") THEN options.status
                       ELSE IF getStatusText(options).threw THEN "Unkown"
                       ELSE getStatusText(options).value
         IN  NormalCompletion(WithStatus(options, status), arguments)

\* No try/catch around the lookup: what getStatusText throws propagates.
HttpResponse_NoCatch(arguments) ==
    IF arguments = <<>> THEN ThrowCompletion("TypeError", arguments)
    ELSE LET options == arguments[1]
         IN  IF ~Truthy(options, "status") /\ getStatusText(options).threw
             THEN ThrowCompletion(getStatusText(options).error, arguments)
             ELSE NormalCompletion(WithStatus(options, ResolvedStatus(options)), arguments)

\* this.status = HttpStatus.getStatusText(...) || status: the registry first.
ResponsesHttpResponse_RegistryFirst(arguments) ==
    IF arguments = <<>> THEN ThrowCompletion("TypeError", arguments)
    ELSE LET options == arguments[1]
             status == IF ~getStatusText(options).threw
                       THEN getStatusText(options).value
                       ELSE IF Truthy(options, "status") THEN options.status
                       ELSE "Unknown"
         IN  NormalCompletion(WithStatus(options, status), arguments)

\* this.status = status ?? ...: only undefined falls through, "" is kept.
ResponsesHttpResponse_Nullish(arguments) ==
    IF arguments = <<>> THEN ThrowCompletion("TypeError", arguments)
    ELSE LET options == arguments[1]
             status == IF Has(options, "status") THEN options.status
                       ELSE IF getStatusText(options).threw THEN "Unknown"
                       ELSE getStatusText(options).value
         IN  NormalCompletion(WithStatus(options, status), arguments)

\* this.message = message || status: the option, not the resolved this.status.
HttpError_MessageFromOption(arguments) ==
    IF arguments = <<>> THEN ThrowCompletion("TypeError", arguments)
    ELSE LET options == arguments[1]
             this1 == Put(EmptyObject, "status", ResolvedStatus(options))
             this2 == IF Truthy(options, "message")
                      THEN Put(this1, "message", options.message)
                      ELSE PutFrom(this1, "message",
                                   IF Has(options, "status")
                                   THEN [message |-> options.status]
                                   ELSE EmptyObject)
         IN  NormalCompletion(PutFrom(this2, "statusCode", options), arguments)

\* this.message = this.status || message: the default first.
HttpError_StatusFirst(arguments) ==
    IF arguments = <<>> THEN ThrowCompletion("TypeError", arguments)
    ELSE LET options == arguments[1]
             this1 == Put(EmptyObject, "status", ResolvedStatus(options))
             this2 == IF this1.status # ""
                      THEN Put(this1, "message", this1.status)
                      ELSE PutFrom(this1, "message", options)
         IN  NormalCompletion(PutFrom(this2, "statusCode", options), arguments)

\* const text = HttpStatus.getStatusText(...) inside the try, then
\* this.status = status || text: the lookup made, and its failure caught, even
\* when a status option is given.
HttpResponse_LookupFirst(arguments) ==
    IF arguments = <<>> THEN ThrowCompletion("TypeError", arguments)
    ELSE LET options == arguments[1]
             status == IF getStatusText(options).threw THEN "Unknown"
                       ELSE IF Truthy(options, "status") THEN options.status
                       ELSE getStatusText(options).value
         IN  NormalCompletion(WithStatus(options, status), arguments)

\* catch (e) { this.status = 'Unkown' } in the errors file only.
HttpError_Unkown(arguments) ==
    IF arguments = <<>> THEN ThrowCompletion("TypeError", arguments)
    ELSE LET options == arguments[1]
             status == IF Truthy(options, "status") THEN options.status
                       ELSE IF ~getStatusText(options).threw
                       THEN getStatusText(options).value
                       ELSE "Unkown"
         IN  NormalCompletion(WithStatus(options, status), arguments)

\* options.status = this.status; options.message = this.message: the resolved
\* labels written back into the caller's options.
HttpError_DefaultsWrittenBack(arguments) ==
    IF arguments = <<>> THEN ThrowCompletion("TypeError", arguments)
    ELSE LET options == arguments[1]
             this == WithStatus(options, ResolvedStatus(options))
         IN  [threw |-> FALSE, this |-> this,
              arguments |-> <<Put(Put(options, "status", this.status),
                                  "message", this.message)>>,
              registry |-> registry]

\* this.message = message ?? this.status: an empty message is stored.
HttpResponse_MessageNullish(arguments) ==
    IF arguments = <<>> THEN ThrowCompletion("TypeError", arguments)
    ELSE LET options == arguments[1]
             this1 == Put(EmptyObject, "status", ResolvedStatus(options))
             this2 == Put(this1, "message",
                          IF Has(options, "message") THEN options.message
                          ELSE this1.status)
         IN  NormalCompletion(PutFrom(this2, "statusCode", options), arguments)

\* this.statusCode = statusCode || 500: a zero code replaced.
HttpError_CodeDefaulted(arguments) ==
    IF arguments = <<>> THEN ThrowCompletion("TypeError", arguments)
    ELSE LET options == arguments[1]
             this == WithStatus(options, ResolvedStatus(options))
         IN  NormalCompletion(IF Has(options, "statusCode") /\ options.statusCode # 0
                              THEN this
                              ELSE Put(this, "statusCode", 500),
                              arguments)

\* this.status = HttpStatus.getStatusText(statusCode): the status option of
\* the errors file's constructor not read.
HttpError_RegistryOnly(arguments) ==
    IF arguments = <<>> THEN ThrowCompletion("TypeError", arguments)
    ELSE LET options == arguments[1]
             status == IF getStatusText(options).threw THEN "Unknown"
                       ELSE getStatusText(options).value
         IN  NormalCompletion(WithStatus(options, status), arguments)

\* this.message = message: no default when the message is missing or empty.
HttpError_NoMessageDefault(arguments) ==
    IF arguments = <<>> THEN ThrowCompletion("TypeError", arguments)
    ELSE LET options == arguments[1]
             this1 == Put(EmptyObject, "status", ResolvedStatus(options))
             this2 == PutFrom(this1, "message", options)
         IN  NormalCompletion(PutFrom(this2, "statusCode", options), arguments)

\* super({ statusCode: N, status }): the message argument not handed on.
VariantOptions_MessageDropped(v, args) ==
    IF 2 <= Len(v.params) /\ 2 \in DOMAIN args
    THEN [statusCode |-> v.statusCode, status |-> args[2]]
    ELSE [statusCode |-> v.statusCode]

\* super({ statusCode: N, status: message, message: status }): swapped.
VariantOptions_Swapped(v, args) ==
    LET Bind(options, i) ==
            IF i <= Len(v.params) /\ i \in DOMAIN args
            THEN Put(options, IF v.params[i] = "message" THEN "status" ELSE "message",
                     args[i])
            ELSE options
    IN  Bind(Bind([statusCode |-> v.statusCode], 1), 2)

\* super({ statusCode: N, message }): the status argument not handed on.
VariantOptions_StatusDropped(v, args) ==
    IF 1 <= Len(v.params) /\ 1 \in DOMAIN args
    THEN [statusCode |-> v.statusCode, message |-> args[1]]
    ELSE [statusCode |-> v.statusCode]

-----------------------------------------------------------------------------
(* The constructors.  Each takes the argument list of the `new` expression   *)
(* (<<>> or <<options>>) and returns a completion.  The bodies read the     *)
(* options and the registry and write to `this` only.                       *)
(* The body is the same text in the three files and is modelled from each.  *)

\* src/index.ts: class HttpResponse, constructor(options).
HttpResponse(arguments) ==
    IF arguments = <<>>
    THEN \* const { status, message, statusCode } = undefined
         ThrowCompletion("TypeError", arguments)
    ELSE LET options == arguments[1]
             \* status || HttpStatus.getStatusText(options.statusCode)
             tried == IF Truthy(options, "status")
                      THEN [threw |-> FALSE, value |-> options.status]
                      ELSE getStatusText(options)
             \* try { this.status = ... } catch (e) { this.status = 'Unknown' }
             this1 == IF tried.threw
                      THEN Put(EmptyObject, "status", "Unknown")
                      ELSE Put(EmptyObject, "status", tried.value)
             \* this.message = message || this.status
             this2 == Put(this1, "message",
                          IF Truthy(options, "message") THEN options.message
                          ELSE this1.status)
             \* this.statusCode = statusCode
             this3 == PutFrom(this2, "statusCode", options)
         IN  NormalCompletion(this3, arguments)

\* src/responses.ts: class HttpResponse, constructor(options).
ResponsesHttpResponse(arguments) ==
    IF arguments = <<>>
    THEN \* const { status, message, statusCode } = undefined
         ThrowCompletion("TypeError", arguments)
    ELSE LET options == arguments[1]
             \* status || HttpStatus.getStatusText(options.statusCode)
             tried == IF Truthy(options, "status")
                      THEN [threw |-> FALSE, value |-> options.status]
                      ELSE getStatusText(options)
             \* try { this.status = ... } catch (e) { this.status = 'Unknown' }
             this1 == IF tried.threw
                      THEN Put(EmptyObject, "status", "Unknown")
                      ELSE Put(EmptyObject, "status", tried.value)
             \* this.message = message || this.status
             this2 == Put(this1, "message",
                          IF Truthy(options, "message") THEN options.message
                          ELSE this1.status)
             \* this.statusCode = statusCode
             this3 == PutFrom(this2, "statusCode", options)
         IN  NormalCompletion(this3, arguments)

\* src/unnamed/part_001: class HttpError extends Error, constructor(options).
\* super() leaves the new Error with no own message, status or statusCode.
HttpError(arguments) ==
    IF arguments = <<>>
    THEN \* const { status, message, statusCode } = undefined
         ThrowCompletion("TypeError", arguments)
    ELSE LET options == arguments[1]
             \* status || HttpStatus.getStatusText(options.statusCode)
             tried == IF Truthy(options, "status")
                      THEN [threw |-> FALSE, value |-> options.status]
                      ELSE getStatusText(options)
             \* try { this.status = ... } catch (e) { this.status = 'Unknown' }
             this1 == IF tried.threw
                      THEN Put(EmptyObject, "status", "Unknown")
                      ELSE Put(EmptyObject, "status", tried.value)
             \* this.message = message || this.status
             this2 == Put(this1, "message",
                          IF Truthy(options, "message") THEN options.message
                          ELSE this1.status)
             \* this.statusCode = statusCode
             this3 == PutFrom(this2, "statusCode", options)
         IN  NormalCompletion(this3, arguments)

-----------------------------------------------------------------------------
(* The named variants: the catalogs of the three files. *)

\* src/index.ts, lines 30-586: one row per `export class X extends B`, with its
\* constructor's parameters and the statusCode its super({...}) call fixes.
IndexCatalog ==
   <<
      [file |-> "index", name |-> "Continue", extends |-> "HttpResponse", statusCode |-> 100, params |-> <<"message">>],
      [file |-> "index", name |-> "Created", extends |-> "HttpResponse", statusCode |-> 201, params |-> <<"message">>],
      [file |-> "index", name |-> "MovedPermanently", extends |-> "HttpResponse", statusCode |-> 301, params |-> <<"message">>],
      [file |-> "index", name |-> "MovedTemporarily", extends |-> "HttpResponse", statusCode |-> 302, params |-> <<"message">>],
      [file |-> "index", name |-> "MultiStatus", extends |-> "HttpResponse", statusCode |-> 207, params |-> <<"message">>],
      [file |-> "index", name |-> "MultipleChoices", extends |-> "HttpResponse", statusCode |-> 300, params |-> <<"message">>],
      [file |-> "index", name |-> "NoContent", extends |-> "HttpResponse", statusCode |-> 204, params |-> <<"message">>],
      [file |-> "index", name |-> "NonAuthoritativeInformation", extends |-> "HttpResponse", statusCode |-> 203, params |-> <<"message">>],
      [file |-> "index", name |-> "NotModified", extends |-> "HttpResponse", statusCode |-> 304, params |-> <<"message">>],
      [file |-> "index", name |-> "Success", extends |-> "HttpResponse", statusCode |-> 200, params |-> <<"message">>],
      [file |-> "index", name |-> "PartialContent", extends |-> "HttpResponse", statusCode |-> 206, params |-> <<"message">>],
      [file |-> "index", name |-> "PermanentRedirect", extends |-> "HttpResponse", statusCode |-> 308, params |-> <<"message">>],
      [file |-> "index", name |-> "Processing", extends |-> "HttpResponse", statusCode |-> 102, params |-> <<"message">>],
      [file |-> "index", name |-> "ResetContent", extends |-> "HttpResponse", statusCode |-> 205, params |-> <<"message">>],
      [file |-> "index", name |-> "SeeOther", extends |-> "HttpResponse", statusCode |-> 303, params |-> <<"message">>],
      [file |-> "index", name |-> "SwitchingProtocols", extends |-> "HttpResponse", statusCode |-> 101, params |-> <<"message">>],
      [file |-> "index", name |-> "TemporaryRedirect", extends |-> "HttpResponse", statusCode |-> 307, params |-> <<"message">>],
      [file |-> "index", name |-> "BadGateway", extends |-> "HttpResponse", statusCode |-> 502, params |-> <<"message", "status">>],
      [file |-> "index", name |-> "BadRequest", extends |-> "HttpResponse", statusCode |-> 400, params |-> <<"message", "status">>],
      [file |-> "index", name |-> "Conflict", extends |-> "HttpResponse", statusCode |-> 409, params |-> <<"message", "status">>],
      [file |-> "index", name |-> "ExpectationFailed", extends |-> "HttpResponse", statusCode |-> 417, params |-> <<"message", "status">>],
      [file |-> "index", name |-> "FailedDependency", extends |-> "HttpResponse", statusCode |-> 424, params |-> <<"message", "status">>],
      [file |-> "index", name |-> "Forbidden", extends |-> "HttpResponse", statusCode |-> 403, params |-> <<"message", "status">>],
      [file |-> "index", name |-> "GatewayTimeout", extends |-> "HttpResponse", statusCode |-> 504, params |-> <<"message", "status">>],
      [file |-> "index", name |-> "Gone", extends |-> "HttpResponse", statusCode |-> 410, params |-> <<"message", "status">>],
      [file |-> "index", name |-> "HttpVersionNotSupported", extends |-> "HttpResponse", statusCode |-> 410, params |-> <<"message", "status">>],
      [file |-> "index", name |-> "ImATeapot", extends |-> "HttpResponse", statusCode |-> 418, params |-> <<"message", "status">>],
      [file |-> "index", name |-> "InsufficientSpaceOnResource", extends |-> "HttpResponse", statusCode |-> 419, params |-> <<"message", "status">>],
      [file |-> "index", name |-> "InsufficientStorage", extends |-> "HttpResponse", statusCode |-> 419, params |-> <<"message", "status">>],
      [file |-> "index", name |-> "InternalServerError", extends |-> "HttpResponse", statusCode |-> 500, params |-> <<"message", "status">>],
      [file |-> "index", name |-> "LengthRequired", extends |-> "HttpResponse", statusCode |-> 411, params |-> <<"message", "status">>],
      [file |-> "index", name |-> "Locked", extends |-> "HttpResponse", statusCode |-> 423, params |-> <<"message", "status">>],
      [file |-> "index", name |-> "MethodNotAllowed", extends |-> "HttpResponse", statusCode |-> 405, params |-> <<"message", "status">>],
      [file |-> "index", name |-> "NetworkAuthenticationRequired", extends |-> "HttpResponse", statusCode |-> 511, params |-> <<"message", "status">>],
      [file |-> "index", name |-> "NotAcceptable", extends |-> "HttpResponse", statusCode |-> 406, params |-> <<"message", "status">>],
      [file |-> "index", name |-> "NotFound", extends |-> "HttpResponse", statusCode |-> 404, params |-> <<"message", "status">>],
      [file |-> "index", name |-> "NotImplemented", extends |-> "HttpResponse", statusCode |-> 501, params |-> <<"message", "status">>],
      [file |-> "index", name |-> "PaymentRequired", extends |-> "HttpResponse", statusCode |-> 402, params |-> <<"message", "status">>],
      [file |-> "index", name |-> "PreconditionFailed", extends |-> "HttpResponse", statusCode |-> 412, params |-> <<"message", "status">>],
      [file |-> "index", name |-> "PreconditionRequired", extends |-> "HttpResponse", statusCode |-> 428, params |-> <<"message", "status">>],
      [file |-> "index", name |-> "ProxyAuthenticationRequired", extends |-> "HttpResponse", statusCode |-> 407, params |-> <<"message", "status">>],
      [file |-> "index", name |-> "RequestHeaderFieldsTooLarge", extends |-> "HttpResponse", statusCode |-> 431, params |-> <<"message", "status">>],
      [file |-> "index", name |-> "RequestTimeout", extends |-> "HttpResponse", statusCode |-> 408, params |-> <<"message", "status">>],
      [file |-> "index", name |-> "RequestTooLong", extends |-> "HttpResponse", statusCode |-> 413, params |-> <<"message", "status">>],
      [file |-> "index", name |-> "RequestURITooLong", extends |-> "HttpResponse", statusCode |-> 414, params |-> <<"message", "status">>],
      [file |-> "index", name |-> "RequestedRangeNotSatisfiable", extends |-> "HttpResponse", statusCode |-> 416, params |-> <<"message", "status">>],
      [file |-> "index", name |-> "ServiceUnavailable", extends |-> "HttpResponse", statusCode |-> 503, params |-> <<"message", "status">>],
      [file |-> "index", name |-> "TooManyRequests", extends |-> "HttpResponse", statusCode |-> 429, params |-> <<"message", "status">>],
      [file |-> "index", name |-> "Unauthorized", extends |-> "HttpResponse", statusCode |-> 401, params |-> <<"message", "status">>],
      [file |-> "index", name |-> "UnprocessableEntity", extends |-> "HttpResponse", statusCode |-> 422, params |-> <<"message", "status">>],
      [file |-> "index", name |-> "UnsupportedMediaType", extends |-> "HttpResponse", statusCode |-> 415, params |-> <<"message", "status">>]
   >>

\* src/responses.ts, lines 30-214: one row per `export class X extends B`, with its
\* constructor's parameters and the statusCode its super({...}) call fixes.
ResponsesCatalog ==
   <<
      [file |-> "responses", name |-> "Continue", extends |-> "HttpResponse", statusCode |-> 100, params |-> <<"message">>],
      [file |-> "responses", name |-> "Created", extends |-> "HttpResponse", statusCode |-> 201, params |-> <<"message">>],
      [file |-> "responses", name |-> "MovedPermanently", extends |-> "HttpResponse", statusCode |-> 301, params |-> <<"message">>],
      [file |-> "responses", name |-> "MovedTemporarily", extends |-> "HttpResponse", statusCode |-> 302, params |-> <<"message">>],
      [file |-> "responses", name |-> "MultiStatus", extends |-> "HttpResponse", statusCode |-> 207, params |-> <<"message">>],
      [file |-> "responses", name |-> "MultipleChoices", extends |-> "HttpResponse", statusCode |-> 300, params |-> <<"message">>],
      [file |-> "responses", name |-> "NoContent", extends |-> "HttpResponse", statusCode |-> 204, params |-> <<"message">>],
      [file |-> "responses", name |-> "NonAuthoritativeInformation", extends |-> "HttpResponse", statusCode |-> 203, params |-> <<"message">>],
      [file |-> "responses", name |-> "NotModified", extends |-> "HttpResponse", statusCode |-> 304, params |-> <<"message">>],
      [file |-> "responses", name |-> "Success", extends |-> "HttpResponse", statusCode |-> 200, params |-> <<"message">>],
      [file |-> "responses", name |-> "PartialContent", extends |-> "HttpResponse", statusCode |-> 206, params |-> <<"message">>],
      [file |-> "responses", name |-> "PermanentRedirect", extends |-> "HttpResponse", statusCode |-> 308, params |-> <<"message">>],
      [file |-> "responses", name |-> "Processing", extends |-> "HttpResponse", statusCode |-> 102, params |-> <<"message">>],
      [file |-> "responses", name |-> "ResetContent", extends |-> "HttpResponse", statusCode |-> 205, params |-> <<"message">>],
      [file |-> "responses", name |-> "SeeOther", extends |-> "HttpResponse", statusCode |-> 303, params |-> <<"message">>],
      [file |-> "responses", name |-> "SwitchingProtocols", extends |-> "HttpResponse", statusCode |-> 101, params |-> <<"message">>],
      [file |-> "responses", name |-> "TemporaryRedirect", extends |-> "HttpResponse", statusCode |-> 307, params |-> <<"message">>]
   >>

\* src/unnamed/part_001, lines 76-441: one row per `export class X extends B`, with its
\* constructor's parameters and the statusCode its super({...}) call fixes.
ErrorsCatalog ==
   <<
      [file |-> "errors", name |-> "BadGateway", extends |-> "HttpError", statusCode |-> 502, params |-> <<"message", "status">>],
      [file |-> "errors", name |-> "BadRequest", extends |-> "HttpError", statusCode |-> 400, params |-> <<"message", "status">>],
      [file |-> "errors", name |-> "Conflict", extends |-> "HttpError", statusCode |-> 409, params |-> <<"message", "status">>],
      [file |-> "errors", name |-> "ExpectationFailed", extends |-> "HttpError", statusCode |-> 417, params |-> <<"message", "status">>],
      [file |-> "errors", name |-> "FailedDependency", extends |-> "HttpError", statusCode |-> 424, params |-> <<"message", "status">>],
      [file |-> "errors", name |-> "Forbidden", extends |-> "HttpError", statusCode |-> 403, params |-> <<"message", "status">>],
      [file |-> "errors", name |-> "GatewayTimeout", extends |-> "HttpError", statusCode |-> 504, params |-> <<"message", "status">>],
      [file |-> "errors", name |-> "Gone", extends |-> "HttpError", statusCode |-> 410, params |-> <<"message", "status">>],
      [file |-> "errors", name |-> "HttpVersionNotSupported", extends |-> "HttpError", statusCode |-> 410, params |-> <<"message", "status">>],
      [file |-> "errors", name |-> "ImATeapot", extends |-> "HttpError", statusCode |-> 418, params |-> <<"message", "status">>],
      [file |-> "errors", name |-> "InsufficientSpaceOnResource", extends |-> "HttpError", statusCode |-> 419, params |-> <<"message", "status">>],
      [file |-> "errors", name |-> "InsufficientStorage", extends |-> "HttpError", statusCode |-> 419, params |-> <<"message", "status">>],
      [file |-> "errors", name |-> "InternalServerError", extends |-> "HttpError", statusCode |-> 500, params |-> <<"message", "status">>],
      [file |-> "errors", name |-> "LengthRequired", extends |-> "HttpError", statusCode |-> 411, params |-> <<"message", "status">>],
      [file |-> "errors", name |-> "Locked", extends |-> "HttpError", statusCode |-> 423, params |-> <<"message", "status">>],
      [file |-> "errors", name |-> "MethodNotAllowed", extends |-> "HttpError", statusCode |-> 405, params |-> <<"message", "status">>],
      [file |-> "errors", name |-> "NetworkAuthenticationRequired", extends |-> "HttpError", statusCode |-> 511, params |-> <<"message", "status">>],
      [file |-> "errors", name |-> "NotAcceptable", extends |-> "HttpError", statusCode |-> 406, params |-> <<"message", "status">>],
      [file |-> "errors", name |-> "NotFound", extends |-> "HttpError", statusCode |-> 404, params |-> <<"message", "status">>],
      [file |-> "errors", name |-> "NotImplemented", extends |-> "HttpError", statusCode |-> 501, params |-> <<"message", "status">>],
      [file |-> "errors", name |-> "PaymentRequired", extends |-> "HttpError", statusCode |-> 402, params |-> <<"message", "status">>],
      [file |-> "errors", name |-> "PreconditionFailed", extends |-> "HttpError", statusCode |-> 412, params |-> <<"message", "status">>],
      [file |-> "errors", name |-> "PreconditionRequired", extends |-> "HttpError", statusCode |-> 428, params |-> <<"message", "status">>],
      [file |-> "errors", name |-> "ProxyAuthenticationRequired", extends |-> "HttpError", statusCode |-> 407, params |-> <<"message", "status">>],
      [file |-> "errors", name |-> "RequestHeaderFieldsTooLarge", extends |-> "HttpError", statusCode |-> 431, params |-> <<"message", "status">>],
      [file |-> "errors", name |-> "RequestTimeout", extends |-> "HttpError", statusCode |-> 408, params |-> <<"message", "status">>],
      [file |-> "errors", name |-> "RequestTooLong", extends |-> "HttpError", statusCode |-> 413, params |-> <<"message", "status">>],
      [file |-> "errors", name |-> "RequestURITooLong", extends |-> "HttpError", statusCode |-> 414, params |-> <<"message", "status">>],
      [file |-> "errors", name |-> "RequestedRangeNotSatisfiable", extends |-> "HttpError", statusCode |-> 416, params |-> <<"message", "status">>],
      [file |-> "errors", name |-> "ServiceUnavailable", extends |-> "HttpError", statusCode |-> 503, params |-> <<"message", "status">>],
      [file |-> "errors", name |-> "TooManyRequests", extends |-> "HttpError", statusCode |-> 429, params |-> <<"message", "status">>],
      [file |-> "errors", name |-> "Unauthorized", extends |-> "HttpError", statusCode |-> 401, params |-> <<"message", "status">>],
      [file |-> "errors", name |-> "UnprocessableEntity", extends |-> "HttpError", statusCode |-> 422, params |-> <<"message", "status">>],
      [file |-> "errors", name |-> "UnsupportedMediaType", extends |-> "HttpError", statusCode |-> 415, params |-> <<"message", "status">>]
   >>

Catalog == IndexCatalog \o ResponsesCatalog \o ErrorsCatalog

\* The rows of the three catalogs, as a set.
CatalogRows == {Catalog[n] : n \in 1..Len(Catalog)}

\* The parent class a file's variants extend: `extends HttpResponse` names the
\* file's own HttpResponse, `extends HttpError` the errors file's HttpError.
Super(file, arguments) ==
    CASE file = "index"     -> HttpResponse(arguments)
      [] file = "responses" -> ResponsesHttpResponse(arguments)
      [] file = "errors"    -> HttpError(arguments)

\* The options literal of a variant's super({ statusCode: N, message, status })
\* call: args[i] is bound to the i-th declared parameter; an argument beyond
\* the declared parameters is dropped, a missing one is undefined.
VariantOptions(v, args) ==
    LET Bind(options, i) ==
            IF i <= Len(v.params) /\ i \in DOMAIN args
            THEN Put(options, v.params[i], args[i])
            ELSE options
    IN  Bind(Bind([statusCode |-> v.statusCode], 1), 2)

\* class X extends B { constructor(message?, status?) { super({...}) } }
\* The options literal is the variant's own; of the caller's it holds only the
\* argument strings.
Variant(v, args) ==
    [Super(v.file, <<VariantOptions(v, args)>>) EXCEPT !.arguments = args]

-----------------------------------------------------------------------------
(* Inputs *)

StatusCodes == {-1, 0, 200, 404, 999}
Messages    == {"", "You did something wrong!"}
Statuses    == {"", "Validation Error"}

\* Every options object over the three keys, each present or missing.
OptionsSet ==
    LET full == [statusCode : StatusCodes, message : Messages, status : Statuses]
    IN  {[k \in D |-> o[k]] : o \in full, D \in SUBSET {"statusCode", "message", "status"}}

\* new HttpResponse() and new HttpResponse(options)
GenericArguments == {<<>>} \cup {<<o>> : o \in OptionsSet}

\* (message?, status?) as passed: position 1 and 2, each a string or undefined.
\* The README's new Created('User Created!') is one of them.
VariantArguments ==
    LET full == [1..2 -> Messages \cup Statuses]
    IN  {[i \in D |-> a[i]] : a \in {f \in full : f[1] \in Messages /\ f[2] \in Statuses},
                              D \in SUBSET (1..2)}
        \cup {<<"User Created!">>}

-----------------------------------------------------------------------------
(* The state machine: callers construct Outcomes. *)

Init ==
    /\ registry = StatusTexts
    /\ heap = <<>>
    /\ call = [op |-> "none", n |-> 0]

\* `new C(...)` completes: a thrown error reaches the caller and no object
\* exists; otherwise the caller holds the new object.
New(file, class, arguments, completion) ==
    /\ heap' = IF completion.threw THEN heap
               ELSE Append(heap, [file |-> file, class |-> class,
                                  own |-> completion.this])
    /\ call' = IF completion.threw
               THEN [op |-> "new", n |-> call.n + 1,
                     file |-> file, class |-> class,
                     arguments |-> arguments, left |-> completion.arguments,
                     threw |-> TRUE, error |-> completion.error]
               ELSE [op |-> "new", n |-> call.n + 1,
                     file |-> file, class |-> class,
                     arguments |-> arguments, left |-> completion.arguments,
                     threw |-> FALSE, ref |-> Len(heap) + 1]
    /\ registry' = completion.registry

NewHttpResponse ==
    /\ call.n < MaxCalls
    /\ \E arguments \in GenericArguments :
          New("index", "HttpResponse", arguments, HttpResponse(arguments))

NewResponsesHttpResponse ==
    /\ call.n < MaxCalls
    /\ \E arguments \in GenericArguments :
          New("responses", "HttpResponse", arguments, ResponsesHttpResponse(arguments))

NewHttpError ==
    /\ call.n < MaxCalls
    /\ \E arguments \in GenericArguments :
          New("errors", "HttpError", arguments, HttpError(arguments))

NewVariant ==
    /\ call.n < MaxCalls
    /\ \E n \in 1..Len(Catalog), args \in VariantArguments :
          New(Catalog[n].file, Catalog[n].name, args, Variant(Catalog[n], args))

Next ==
    \/ NewHttpResponse
    \/ NewResponsesHttpResponse
    \/ NewHttpError
    \/ NewVariant

Spec == Init /\ [][Next]_vars

-----------------------------------------------------------------------------
(* Callers that write to an Outcome they hold.  The classes declare their  *)
(* fields `public readonly`, which the compiler checks on references typed *)
(* as the class and erases; the constructors never freeze `this`, so an    *)
(* assignment through a reference typed `any` (every caught exception is   *)
(* one) or from JavaScript is an ordinary write to an own property.        *)

AssignedValues(k) == IF k = "statusCode" THEN {500} ELSE {"changed"}

\* heap[i][k] = v
CallerAssign ==
    \E i \in 1..Len(heap), k \in {"statusCode", "status", "message"} :
        \E v \in AssignedValues(k) :
            /\ heap' = [heap EXCEPT ![i].own = Put(@, k, v)]
            /\ call' = [op |-> "assign", n |-> call.n, ref |-> i,
                        key |-> k, value |-> v]
            /\ UNCHANGED registry

NextCaller == Next \/ CallerAssign

SpecCaller == Init /\ [][NextCaller]_vars

-----------------------------------------------------------------------------
(* Custom variants.  The README's two user-defined classes, each composed    *)
(* over a predefined variant with `extends` and a super(...) call; `parent` *)
(* is the catalog row of the class after `extends`.  The README spells the  *)
(* second constructor `constuctor`, under which the class does not compile; *)
(* the class modelled is the one with the keyword spelled out.              *)

MaxCustomCalls == 2   \* `new` expressions a behaviour with custom variants evaluates

\* super(undefined, 'Your credit card has expired'): the text as the status.
CreditCardExpired_AsStatus(parent, args) ==
    [Variant(parent, (2 :> "Your credit card has expired"))
        EXCEPT !.arguments = args]

\* class CreditCardExpired extends PaymentRequired {
\*   constructor() { super('Your credit card has expired') } }
CreditCardExpired(parent, args) ==
    [Variant(parent, <<"Your credit card has expired">>)
        EXCEPT !.arguments = args]

\* The label registered under the parent's code instead of being handed to
\* super: HttpStatus[code] = 'Validation Error'; super(message).
ValidationError_RegistryPatched(parent, args) ==
    [threw |-> FALSE,
     this |-> [statusCode |-> parent.statusCode,
               status     |-> "Validation Error",
               message    |-> IF 1 \in DOMAIN args /\ args[1] # ""
                              THEN args[1] ELSE "Validation Error"],
     arguments |-> args,
     registry |-> (parent.statusCode :> "Validation Error") @@ registry]

\* class ValidationError extends BadRequest {
\*   constructor(message) { super(message, 'Validation Error') } }
ValidationError(parent, args) ==
    [Variant(parent, IF 1 \in DOMAIN args
                     THEN <<args[1], "Validation Error">>
                     ELSE (2 :> "Validation Error"))
        EXCEPT !.arguments = args]

\* The predefined variants the custom classes are composed over: the README's
\* two parents, the two failure variants that share code 410, and a success
\* variant.
CustomParents ==
    {v \in CatalogRows :
        v.name \in {"BadRequest", "PaymentRequired", "Gone",
                    "HttpVersionNotSupported", "Created"}}

CustomClasses == {"CreditCardExpired", "ValidationError"}

\* new ValidationError(), new ValidationError(''), new ValidationError('...')
CustomArguments == {<<>>} \cup {<<m>> : m \in Messages}

\* The arguments the parents and siblings themselves are constructed with.
ParentArguments ==
    {<<>>, <<"You did something wrong!">>,
     <<"You did something wrong!", "Validation Error">>}

\* new CreditCardExpired(...) or new ValidationError(...), the class extending
\* `parent`.
NewCustom ==
    /\ call.n < MaxCustomCalls
    /\ \E class \in CustomClasses, parent \in CustomParents,
          args \in CustomArguments :
          LET completion == IF class = "CreditCardExpired"
                            THEN CreditCardExpired(parent, args)
                            ELSE ValidationError(parent, args)
          IN  /\ ~completion.threw
              /\ heap' = Append(heap, [file |-> "user", class |-> class,
                                       own |-> completion.this])
              /\ call' = [op |-> "new", n |-> call.n + 1,
                          file |-> "user", class |-> class,
                          extends |-> parent,
                          arguments |-> args, left |-> completion.arguments,
                          threw |-> FALSE, ref |-> Len(heap) + 1]
              /\ registry' = completion.registry

\* new BadRequest(...), new Gone(...), ...: a parent or a sibling of it,
\* constructed in the same program as the custom variants.
NewParent ==
    /\ call.n < MaxCustomCalls
    /\ \E v \in CustomParents, args \in ParentArguments :
          New(v.file, v.name, args, Variant(v, args))

NextCustom == NewCustom \/ NewParent

SpecCustom == Init /\ [][NextCustom]_vars

-----------------------------------------------------------------------------
(* Throwing and catching.  The README's caller throws failure-family values *)
(* and tells them from other faults with `e instanceof HttpError`, which    *)
(* walks the prototype chain of the caught value.  src/ holds no compiler   *)
(* configuration, so the emit target is the build's choice.  With ES2015    *)
(* classes `new` returns an object whose chain starts at the class          *)
(* constructed.  With the ES5 emit (the compiler's default) a constructor   *)
(* is `var _this = _super.call(this, ...) || this`: Error called as a       *)
(* function returns a new Error, that object becomes _this in HttpError and *)
(* in every class below it, and its chain is Error's alone; HttpError has   *)
(* no Object.setPrototypeOf(this, new.target.prototype) to restore it.      *)

Targets == {"ES5", "ES2015"}

\* class HttpError extends Error; class HttpResponse.
BaseChain(base) ==
    IF base = "HttpError" THEN <<"HttpError", "Error">> ELSE <<base>>

\* class X extends HttpError / class X extends HttpResponse.
VariantChain(v) == <<v.name>> \o BaseChain(v.extends)

\* The prototype chain of the object `new` returns for a class with the
\* declared chain `chain`, under the emit target.
Constructed(target, chain) ==
    IF target = "ES5" /\ \E i \in 1..Len(chain) : chain[i] = "Error"
    THEN <<"Error">>
    ELSE chain

\* e instanceof C
InstanceOf(e, C) == \E i \in 1..Len(e.proto) : e.proto[i] = C

\* The failures of the README's caller that the library did not produce: a
\* plain Error, the http client's error, and an index.ts failure variant
\* (it extends HttpResponse).
OtherFailures ==
    {[file |-> "user", class |-> "Error", proto |-> <<"Error">>,
      own |-> [message |-> "You did something wrong!"]],
     [file |-> "user", class |-> "AxiosError", proto |-> <<"AxiosError", "Error">>,
      own |-> [message |-> "You did something wrong!", code |-> 404]],
     [file |-> "index", class |-> "BadRequest",
      proto |-> <<"BadRequest", "HttpResponse">>,
      own |-> [statusCode |-> 400, status |-> "Bad Request",
               message |-> "Bad Request"]]}

InitThrow ==
    /\ registry = StatusTexts
    /\ heap = <<>>
    /\ \E target \in Targets : call = [op |-> "none", n |-> 0, target |-> target]

\* throw e: the value is in flight to the nearest catch.  `produced` tells
\* whether e came out of HttpError, a variant of it or a custom variant.
Throw(e, produced) ==
    /\ heap' = Append(heap, e)
    /\ call' = [op |-> "throw", n |-> call.n + 1, target |-> call.target,
                ref |-> Len(heap) + 1, produced |-> produced]

\* What `throw new C(...)` throws: the object constructed, or the TypeError
\* the constructor itself threw.
ThrowNew(file, class, chain, completion) ==
    /\ registry' = completion.registry
    /\ IF completion.threw
       THEN Throw([file |-> file, class |-> completion.error,
                   proto |-> <<completion.error, "Error">>,
                   own |-> EmptyObject], FALSE)
       ELSE Throw([file |-> file, class |-> class,
                   proto |-> Constructed(call.target, chain),
                   own |-> completion.this], TRUE)

\* throw new HttpError({ statusCode: e.code })
ThrowHttpError ==
    /\ call.op = "none"
    /\ \E arguments \in GenericArguments :
          ThrowNew("errors", "HttpError", BaseChain("HttpError"),
                   HttpError(arguments))

\* throw new BadRequest('You did something wrong!')
ThrowVariant ==
    /\ call.op = "none"
    /\ \E n \in 1..Len(ErrorsCatalog), args \in VariantArguments :
          ThrowNew("errors", ErrorsCatalog[n].name, VariantChain(ErrorsCatalog[n]),
                   Variant(ErrorsCatalog[n], args))

\* throw new ValidationError('You did something wrong!')
ThrowCustom ==
    /\ call.op = "none"
    /\ \E class \in CustomClasses, args \in CustomArguments,
          parent \in {v \in CustomParents : v.file = "errors"} :
          ThrowNew("user", class, <<class>> \o VariantChain(parent),
                   IF class = "CreditCardExpired"
                   THEN CreditCardExpired(parent, args)
                   ELSE ValidationError(parent, args))

\* A failure from elsewhere reaches the same catch.
ThrowOther ==
    /\ call.op = "none"
    /\ \E e \in OtherFailures : Throw(e, FALSE)
    /\ UNCHANGED registry

\* .catch(e => { if (e instanceof HttpError) ... else ... })
Catch ==
    /\ call.op = "throw"
    /\ call' = [op |-> "catch", n |-> call.n, target |-> call.target,
                ref |-> call.ref, produced |-> call.produced,
                isHttpError |-> InstanceOf(heap[call.ref], "HttpError")]
    /\ UNCHANGED <<registry, heap>>

NextThrow ==
    \/ ThrowHttpError
    \/ ThrowVariant
    \/ ThrowCustom
    \/ ThrowOther
    \/ Catch

SpecThrow == InitThrow /\ [][NextThrow]_vars

-----------------------------------------------------------------------------
(* One construction, statement by statement.  The constructor body is the   *)
(* same four statements in the three files (HttpError's is preceded by      *)
(* super(), which makes the object); `call.pc` is the statement about to    *)
(* run and heap[call.ref].own is `this` as the statements so far left it.  *)

\* The statements in a different order: message assigned before the try.
Order_MessageFirst == <<"destructure", "message", "status", "statusCode", "return">>

\* The statements of the body, in program order.
Order == <<"destructure", "status", "message", "statusCode", "return">>

\* The statement after `pc`.
After(pc) == Order[(CHOOSE i \in 1..Len(Order) : Order[i] = pc) + 1]

\* `this` of the construction under way.
This == heap[call.ref].own

\* The construction moves to statement `pc`, with `this` as given.
Goto(pc, this) ==
    /\ heap' = [heap EXCEPT ![call.ref].own = this]
    /\ call' = [call EXCEPT !.pc = pc]
    /\ UNCHANGED registry

\* new HttpResponse(options) / new HttpError(options) is entered: the object
\* exists, with no own status, message or statusCode.
Enter ==
    /\ call.op = "none"
    /\ \E file \in {"index", "responses", "errors"},
          arguments \in GenericArguments :
          /\ heap' = Append(heap, [file |-> file,
                                   class |-> IF file = "errors" THEN "HttpError"
                                             ELSE "HttpResponse",
                                   own |-> EmptyObject])
          /\ call' = [op |-> "body", n |-> call.n + 1, file |-> file,
                      class |-> IF file = "errors" THEN "HttpError"
                                ELSE "HttpResponse",
                      arguments |-> arguments, pc |-> Order[1],
                      ref |-> Len(heap) + 1]
    /\ UNCHANGED registry

\* const { status, message, statusCode } = options
Destructure ==
    /\ call.op = "body" /\ call.pc = "destructure"
    /\ IF call.arguments = <<>>
       THEN /\ heap' = SubSeq(heap, 1, Len(heap) - 1)
            /\ call' = [op |-> "new", n |-> call.n, file |-> call.file,
                        class |-> call.class, arguments |-> call.arguments,
                        left |-> call.arguments,
                        threw |-> TRUE, error |-> "TypeError"]
            /\ UNCHANGED registry
       ELSE Goto(After("destructure"), This)

\* try { this.status = status || HttpStatus.getStatusText(options.statusCode) }
\* completes.
TryStatus ==
    /\ call.op = "body" /\ call.pc = "status"
    /\ LET options == call.arguments[1]
           tried == IF Truthy(options, "status")
                    THEN [threw |-> FALSE, value |-> options.status]
                    ELSE getStatusText(options)
       IN  /\ ~tried.threw
           /\ Goto(After("status"), Put(This, "status", tried.value))

\* The lookup inside the try throws: control goes to the catch, this.status
\* not assigned.
TryThrows ==
    /\ call.op = "body" /\ call.pc = "status"
    /\ LET options == call.arguments[1]
       IN  /\ ~Truthy(options, "status")
           /\ getStatusText(options).threw
           /\ Goto("catch", This)

\* catch (e) { this.status = 'Unknown' }
CatchStatus ==
    /\ call.op = "body" /\ call.pc = "catch"
    /\ Goto(After("status"), Put(This, "status", "Unknown"))

\* this.message = message || this.status
AssignMessage ==
    /\ call.op = "body" /\ call.pc = "message"
    /\ LET options == call.arguments[1]
       IN  Goto(After("message"),
                IF Truthy(options, "message")
                THEN Put(This, "message", options.message)
                ELSE IF Has(This, "status")
                THEN Put(This, "message", This.status)
                ELSE This)

\* this.statusCode = statusCode
AssignStatusCode ==
    /\ call.op = "body" /\ call.pc = "statusCode"
    /\ Goto(After("statusCode"), PutFrom(This, "statusCode", call.arguments[1]))

\* The constructor returns: the caller holds the object.
Return ==
    /\ call.op = "body" /\ call.pc = "return"
    /\ call' = [op |-> "new", n |-> call.n, file |-> call.file,
                class |-> call.class, arguments |-> call.arguments,
                left |-> call.arguments, threw |-> FALSE, ref |-> call.ref]
    /\ UNCHANGED <<registry, heap>>

NextBody ==
    \/ Enter
    \/ Destructure
    \/ TryStatus
    \/ TryThrows
    \/ CatchStatus
    \/ AssignMessage
    \/ AssignStatusCode
    \/ Return

SpecBody == Init /\ [][NextBody]_vars

-----------------------------------------------------------------------------
(* Several callers.  Each caller constructs one HttpResponse of index.ts and *)
(* reads Outcomes that have been returned, its own or another caller's.     *)
(* The callers are interleaved statement by statement, which is finer than  *)
(* a JavaScript run-to-completion constructor is ever interleaved; there is *)
(* no lock and no other synchronization.  call.at[c] is caller c's frame:   *)
(* its position, its arguments, its `this` and what it last read.           *)

NumCallers == 2

Callers == 1..NumCallers

\* What the callers construct from: a registered and an unregistered code,
\* with and without message and status, and no options at all.
SharedArguments ==
    {<<>>,
     <<[statusCode |-> 404]>>,
     <<[statusCode |-> 999]>>,
     <<[statusCode |-> 404, message |-> "You did something wrong!"]>>,
     <<[statusCode |-> 999, status |-> "Validation Error"]>>}

\* One instance kept and handed out again: every construction after the first
\* writes the object the last one made.
Fresh_Pooled(h) == IF h = <<>> THEN 1 ELSE Len(h)

\* `new` makes a new object for every construction.
Fresh(h) == Len(h) + 1

\* One statement of the body of index.ts's constructor: the next position and
\* `this` after it.
Statement(pc, arguments, this) ==
    CASE pc = "destructure" ->
            IF arguments = <<>> THEN [pc |-> "threw", this |-> this]
            ELSE [pc |-> After("destructure"), this |-> this]
      [] pc = "status" ->
            LET options == arguments[1]
                tried == IF Truthy(options, "status")
                         THEN [threw |-> FALSE, value |-> options.status]
                         ELSE getStatusText(options)
            IN  IF tried.threw THEN [pc |-> "catch", this |-> this]
                ELSE [pc |-> After("status"),
                      this |-> Put(this, "status", tried.value)]
      [] pc = "catch" ->
            [pc |-> After("status"), this |-> Put(this, "status", "Unknown")]
      [] pc = "message" ->
            [pc |-> After("message"),
             this |-> IF Truthy(arguments[1], "message")
                      THEN Put(this, "message", arguments[1].message)
                      ELSE IF Has(this, "status")
                      THEN Put(this, "message", this.status)
                      ELSE this]
      [] pc = "statusCode" ->
            [pc |-> After("statusCode"),
             this |-> PutFrom(this, "statusCode", arguments[1])]
      [] pc = "return" ->
            [pc |-> "holds", this |-> this]

InitShared ==
    /\ registry = StatusTexts
    /\ heap = <<>>
    /\ call = [op |-> "callers", n |-> 0,
               at |-> [c \in Callers |-> [pc |-> "idle"]]]

\* Caller c evaluates new HttpResponse(...): the object is made and the body
\* is entered.
CallerEnter(c) ==
    /\ call.at[c].pc = "idle"
    /\ \E arguments \in SharedArguments :
          LET ref == Fresh(heap)
              object == [file |-> "index", class |-> "HttpResponse",
                         own |-> EmptyObject, from |-> arguments,
                         returned |-> FALSE]
          IN  /\ heap' = IF ref = Len(heap) + 1 THEN Append(heap, object)
                         ELSE [heap EXCEPT ![ref] = object]
              /\ call' = [call EXCEPT !.n = @ + 1,
                                      !.at[c] = [pc |-> Order[1],
                                                 arguments |-> arguments,
                                                 ref |-> ref]]
    /\ UNCHANGED registry

\* Caller c's construction runs its next statement; after the last one the
\* object is returned and can be read by anyone holding it.
CallerStep(c) ==
    /\ call.at[c].pc \in {"destructure", "status", "catch", "message",
                          "statusCode", "return"}
    /\ LET frame == call.at[c]
           done == Statement(frame.pc, frame.arguments, heap[frame.ref].own)
       IN  /\ heap' = [heap EXCEPT ![frame.ref].own = done.this,
                                   ![frame.ref].returned = (done.pc = "holds")]
           /\ call' = [call EXCEPT !.at[c].pc = done.pc]
    /\ UNCHANGED registry

\* Caller c, not inside a constructor, reads the three fields of a returned
\* Outcome.
CallerRead(c) ==
    /\ call.at[c].pc \in {"idle", "holds", "threw"}
    /\ \E i \in 1..Len(heap) :
          /\ heap[i].returned
          /\ call' = [call EXCEPT !.at[c] =
                         ("seen" :> [ref |-> i, own |-> heap[i].own]) @@ @]
    /\ UNCHANGED <<registry, heap>>

NextShared ==
    \E c \in Callers :
        \/ CallerEnter(c)
        \/ CallerStep(c)
        \/ CallerRead(c)

SpecShared == InitShared /\ [][NextShared]_vars

-----------------------------------------------------------------------------
(* Properties.  They read the latest call and the object it produced.      *)

\* The latest step was new HttpResponse(options) or new HttpError(options),
\* of any of the three files, with an options object.
Generic ==
    /\ call.op = "new"
    /\ call.class \in {"HttpResponse", "HttpError"}
    /\ call.arguments # <<>>

\* The latest step was `new X(...)` for a named variant X.
Named ==
    /\ call.op = "new"
    /\ call.class \notin {"HttpResponse", "HttpError"}

\* The options of the latest generic call.
Options == call.arguments[1]

\* The latest call returned an object.
Returned == call.op = "new" /\ ~call.threw

\* The own properties of the object the latest call returned.
Result == heap[call.ref].own

\* Whether the object holds a string in `status` and in `message`.
HasLabels(o) == Has(o, "status") /\ Has(o, "message")

\* C1: constructed with a statusCode and no status option, by HttpResponse
\* (either file) or HttpError and whatever the message option, the Outcome's
\* status is the registry's label for the code when the registry has one and
\* "Unknown" when it has none.
C1_StatusFromRegistry ==
    (Generic /\ Has(Options, "statusCode") /\ ~Has(Options, "status")) =>
        /\ Returned
        /\ Has(Result, "status")
        /\ Options.statusCode \in DOMAIN registry =>
               Result.status = registry[Options.statusCode]
        /\ Options.statusCode \notin DOMAIN registry =>
               Result.status = "Unknown"

\* new HttpError({statusCode: 999, message: "You did something wrong!"}) gave
\* status "Unknown".
C1_Witness ==
    /\ Generic /\ call.class = "HttpError"
    /\ Options = [statusCode |-> 999, message |-> "You did something wrong!"]
    /\ Returned /\ Result.status = "Unknown"

\* C2: constructed with no message option, the Outcome's message is its own
\* status, however that status was resolved (explicit, registry, "Unknown").
C2_MessageDefaultsToStatus ==
    (Generic /\ ~Has(Options, "message")) =>
        /\ Returned
        /\ HasLabels(Result)
        /\ Result.message = Result.status

\* new HttpError({statusCode: 404}) gave message "Not Found", its status.
C2_Witness ==
    /\ Generic /\ call.class = "HttpError"
    /\ Options = [statusCode |-> 404]
    /\ Returned /\ Result.status = "Not Found" /\ Result.message = "Not Found"

\* C3: constructed with a non-empty status option, for a registered or an
\* unregistered statusCode, the Outcome's status is that option verbatim, and
\* with no message option its message is that option too, not the registry's
\* label.
C3_ExplicitStatusKept ==
    (Generic /\ Truthy(Options, "status")) =>
        /\ Returned
        /\ HasLabels(Result)
        /\ Result.status = Options.status
        /\ ~Has(Options, "message") => Result.message = Options.status

\* new HttpResponse({statusCode: 404, status: "Validation Error"}) of
\* responses.ts gave status and message "Validation Error", not "Not Found".
C3_Witness ==
    /\ Generic /\ call.file = "responses"
    /\ Options = [statusCode |-> 404, status |-> "Validation Error"]
    /\ registry[404] # "Validation Error"
    /\ Returned
    /\ Result.status = "Validation Error" /\ Result.message = "Validation Error"

\* C4: constructed with a non-empty message option, whatever the statusCode
\* and the status option, the Outcome's message is that option.
C4_ExplicitMessageKept ==
    (Generic /\ Truthy(Options, "message")) =>
        /\ Returned
        /\ Has(Result, "message")
        /\ Result.message = Options.message

\* new HttpError({statusCode: 200, message: "You did something wrong!",
\* status: "Validation Error"}) kept the message.
C4_Witness ==
    /\ Generic /\ call.class = "HttpError"
    /\ Options = [statusCode |-> 200, message |-> "You did something wrong!",
                  status |-> "Validation Error"]
    /\ Returned /\ Result.message = "You did something wrong!"

\* The lookup the constructor makes for these options throws: it is made (no
\* truthy status option) and the registry has no label for the statusCode,
\* or the statusCode is undefined.
LookupFaults(options) == ~Truthy(options, "status") /\ getStatusText(options).threw

C6_MissingStatusCodeRejected ==
    (Generic /\ ~Has(Options, "statusCode")) =>
        /\ call.threw
        /\ ~Has(call, "ref")

\* C7: every Outcome constructed, by a generic constructor or a named
\* variant, from absent, empty or non-empty message and status, holds a
\* non-empty status and a non-empty message.
C7_LabelsNeverEmpty ==
    \A i \in 1..Len(heap) :
        /\ HasLabels(heap[i].own)
        /\ heap[i].own.status # ""
        /\ heap[i].own.message # ""

\* new BadRequest("", "") of the errors file gave "Bad Request" twice.
C7_Witness ==
    /\ Named /\ call.file = "errors" /\ call.class = "BadRequest"
    /\ call.arguments = <<"", "">>
    /\ Returned
    /\ Result.status = "Bad Request" /\ Result.message = "Bad Request"

\* C8: an Outcome's statusCode, status and message never change once it is
\* constructed: no step, of the library or of a caller, alters an object of
\* the heap.
C8_FieldsNeverChange ==
    [][\A i \in 1..Len(heap) : heap'[i] = heap[i]]_vars

\* The catalog row of each class, by file and name.
Declared ==
    [file \in {"index", "responses", "errors"} |->
        [name \in {v.name : v \in {w \in CatalogRows : w.file = file}} |->
            CHOOSE v \in CatalogRows : v.file = file /\ v.name = name]]

\* The catalog row of the variant the latest call constructed.
Called == Declared[call.file][call.class]

\* {statusCode: code, message, status} with the arguments (message, status)
\* handed on as they are.
PassedThrough(code, args) ==
    [k \in {"statusCode"} \cup {"message" : i \in DOMAIN args \cap {1}}
                          \cup {"status" : i \in DOMAIN args \cap {2}} |->
        CASE k = "statusCode" -> code
          [] k = "message"    -> args[1]
          [] k = "status"     -> args[2]]

ParamsFollowFamily ==
    \A v \in CatalogRows :
        v.params = IF v.statusCode >= 400 THEN <<"message", "status">>
                   ELSE <<"message">>

C11_NoArgumentsGiveLabel ==
    (Named /\ DOMAIN call.arguments = {}) =>
        /\ Returned
        /\ Called.statusCode \in DOMAIN registry
        /\ Result = [statusCode |-> Called.statusCode,
                     status     |-> registry[Called.statusCode],
                     message    |-> registry[Called.statusCode]]
        /\ call.class = "BadRequest" =>
               Result = [statusCode |-> 400, status |-> "Bad Request",
                         message |-> "Bad Request"]

\* new BadRequest() of the errors file gave 400, "Bad Request", "Bad Request".
C11_Witness ==
    /\ Named /\ call.file = "errors" /\ call.class = "BadRequest"
    /\ DOMAIN call.arguments = {}
    /\ Returned
    /\ Result = [statusCode |-> 400, status |-> "Bad Request",
                 message |-> "Bad Request"]

\* C12: a named variant called with a non-empty message alone yields its fixed
\* code, the registry's label for that code as status and the message as
\* message; Created("User Created!") yields {statusCode: 201, status:
\* "Created", message: "User Created!"}.
C12_MessageAloneKept ==
    (Named /\ DOMAIN call.arguments = {1} /\ call.arguments[1] # "") =>
        /\ Returned
        /\ Called.statusCode \in DOMAIN registry
        /\ Result = [statusCode |-> Called.statusCode,
                     status     |-> registry[Called.statusCode],
                     message    |-> call.arguments[1]]
        /\ (call.class = "Created" /\ call.arguments = <<"User Created!">>) =>
               Result = [statusCode |-> 201, status |-> "Created",
                         message |-> "User Created!"]

\* new Created("User Created!") of responses.ts gave 201, "Created",
\* "User Created!".
C12_Witness ==
    /\ Named /\ call.file = "responses" /\ call.class = "Created"
    /\ call.arguments = <<"User Created!">>
    /\ Returned
    /\ Result = [statusCode |-> 201, status |-> "Created",
                 message |-> "User Created!"]

\* C15: HttpError and HttpResponse follow the same construction rules: for
\* every options value the constructor of the errors file, of index.ts and of
\* responses.ts complete alike, with the same statusCode, status and message.
C15_SameConstructionRules ==
    Generic =>
        /\ Returned
        /\ HttpError(call.arguments) = HttpResponse(call.arguments)
        /\ HttpError(call.arguments) = ResponsesHttpResponse(call.arguments)
        /\ Result = HttpError(call.arguments).this
        /\ Result = HttpResponse(call.arguments).this

\* new HttpError({statusCode: 999}) gave what index.ts's HttpResponse gives for
\* the same options: 999, "Unknown", "Unknown".
C15_Witness ==
    /\ Generic /\ call.class = "HttpError"
    /\ Options = [statusCode |-> 999]
    /\ Returned
    /\ Result = HttpResponse(call.arguments).this
    /\ Result = [statusCode |-> 999, status |-> "Unknown", message |-> "Unknown"]

\* The family of a catalog row: the failure variants declare (message,
\* status), the success variants (message).
Family(v) == IF Len(v.params) = 2 THEN "failure" ELSE "success"

\* C17: each catalog holds one entry per status code: no other variant of the
\* same file and family yields the statusCode the constructed variant yields.
C17_OneVariantPerCode ==
    (Named /\ Returned) =>
        \A v \in CatalogRows :
            (v.file = call.file /\ Family(v) = Family(Called) /\ v.name # call.class)
                => Variant(v, <<>>).this.statusCode # Result.statusCode

\* C18: HttpVersionNotSupported yields statusCode 505 in every file that
\* defines it, and with no arguments the status "HTTP Version Not Supported",
\* so that it differs from what Gone yields.
C18_HttpVersionNotSupportedIs505 ==
    (Named /\ call.class = "HttpVersionNotSupported") =>
        /\ Returned
        /\ Result.statusCode = 505
        /\ call.arguments = <<>> =>
               /\ Result.status = "HTTP Version Not Supported"
               /\ \A v \in CatalogRows :
                      (v.file = call.file /\ v.name = "Gone") =>
                          /\ Variant(v, <<>>).this.statusCode # Result.statusCode
                          /\ Variant(v, <<>>).this.status # Result.status

\* The statusCode of the options has no label in the registry.
Unregistered(options) ==
    Has(options, "statusCode") /\ options.statusCode \notin DOMAIN registry

C20_ConstructionPure ==
    [][(call'.op = "new" /\ call'.n = call.n + 1) =>
          /\ registry' = registry
          /\ call'.left = call'.arguments
          /\ Len(heap') = Len(heap) + (IF call'.threw THEN 0 ELSE 1)
          /\ \A i \in 1..Len(heap) : heap'[i] = heap[i]]_vars

\* new HttpError({statusCode: 999}), whose lookup threw, left the options and
\* the registry as they were and one object on the heap.
C20_Witness ==
    /\ Generic /\ call.class = "HttpError"
    /\ call.arguments = <<[statusCode |-> 999]>>
    /\ LookupFaults(Options)
    /\ Returned
    /\ call.left = <<[statusCode |-> 999]>>
    /\ registry = StatusTexts
    /\ Len(heap) = call.n

\* The latest step was `new X(...)` for a custom variant X.
Custom == call.op = "new" /\ call.file = "user"

\* The latest step was `new X(...)` for a predefined variant X.
Predefined == Named /\ call.file # "user"

C14_MessageFixedKeepsParent ==
    (Custom /\ call.class = "CreditCardExpired") =>
        /\ Result = [statusCode |-> call.extends.statusCode,
                     status     |-> StatusTexts[call.extends.statusCode],
                     message    |-> "Your credit card has expired"]
        /\ call.extends.name = "PaymentRequired" =>
               Result.statusCode = 402 /\ Result.status = "Payment Required"

\* new CreditCardExpired() over the errors file's PaymentRequired gave 402,
\* "Payment Required", "Your credit card has expired".
C14_Witness ==
    /\ Custom /\ call.class = "CreditCardExpired"
    /\ call.extends.file = "errors" /\ call.extends.name = "PaymentRequired"
    /\ call.arguments = <<>>
    /\ Result = [statusCode |-> 402, status |-> "Payment Required",
                 message |-> "Your credit card has expired"]

\* C16: a caught value passes `instanceof HttpError` exactly when HttpError,
\* one of its named variants or a custom variant composed over them produced
\* it.
C16_InstanceOfTellsOutcomes ==
    call.op = "catch" => (call.isHttpError <=> call.produced)

\* The options with an empty message and an empty status taken out.
WithoutEmpty(options) ==
    [k \in {j \in DOMAIN options :
                j \notin {"message", "status"} \/ options[j] # ""} |-> options[k]]

\* C22: an empty-string message or status option is treated exactly as an
\* absent one: the Outcome is the one the same constructor yields for the
\* options without it (status from the registry or "Unknown", message the
\* resolved status), and neither field holds the empty string.
C22_EmptyIsAbsent ==
    Generic =>
        /\ Returned
        /\ Result = Super(call.file, <<WithoutEmpty(Options)>>).this
        /\ (Has(Options, "status") /\ Options.status = "") =>
               Result.status = IF Unregistered(Options) \/ ~Has(Options, "statusCode")
                               THEN "Unknown"
                               ELSE registry[Options.statusCode]
        /\ (Has(Options, "message") /\ Options.message = "") =>
               Result.message = Result.status
        /\ Result.status # "" /\ Result.message # ""

\* new HttpResponse({statusCode: 404, message: "", status: ""}) of index.ts
\* gave 404, "Not Found", "Not Found".
C22_Witness ==
    /\ Generic /\ call.file = "index"
    /\ Options = [statusCode |-> 404, message |-> "", status |-> ""]
    /\ WithoutEmpty(Options) = [statusCode |-> 404]
    /\ Returned
    /\ Result = [statusCode |-> 404, status |-> "Not Found",
                 message |-> "Not Found"]

\* C24: the generic constructors store statusCode verbatim and never
\* validate it: for zero, negative, nonstandard and standard codes the
\* construction returns and the Outcome's statusCode is the option's.
C24_StatusCodeVerbatim ==
    (Generic /\ Has(Options, "statusCode")) =>
        /\ Returned
        /\ Has(Result, "statusCode")
        /\ Result.statusCode = Options.statusCode

\* new HttpError({statusCode: 0}) returned an Outcome with statusCode 0.
C24_Witness ==
    /\ Generic /\ call.class = "HttpError"
    /\ Options = [statusCode |-> 0]
    /\ Returned /\ Result.statusCode = 0 /\ Result.status = "Unknown"

\* The definitions of each variant name, over the three files.
Namesakes ==
    [name \in {v.name : v \in CatalogRows} |->
        {v \in CatalogRows : v.name = name}]

\* C25: a variant name defined in more than one file fixes the same
\* statusCode and declares the same parameters in each, and for the
\* arguments it declares every definition yields the same statusCode, status
\* and message.
C25_SameNameSameOutcome ==
    Named =>
        \A v \in Namesakes[call.class] :
            v.name = call.class =>
                /\ v.statusCode = Called.statusCode
                /\ v.params = Called.params
                /\ DOMAIN call.arguments \subseteq 1..Len(v.params) =>
                       /\ Returned
                       /\ Variant(v, call.arguments).this = Result

\* new BadRequest("You did something wrong!", "Validation Error") of the
\* errors file gave what index.ts's BadRequest gives for the same arguments.
C25_Witness ==
    /\ Named /\ call.file = "errors" /\ call.class = "BadRequest"
    /\ call.arguments = <<"You did something wrong!", "Validation Error">>
    /\ Returned
    /\ Cardinality(Namesakes["BadRequest"]) = 2
    /\ \E v \in Namesakes["BadRequest"] :
          /\ v.file = "index"
          /\ Variant(v, call.arguments).this = Result
    /\ Result = [statusCode |-> 400, status |-> "Validation Error",
                 message |-> "You did something wrong!"]

\* C23: within one construction, the statement that assigns message runs
\* when status already holds its final value (the explicit option, the
\* registry's label, or "Unknown" after the lookup threw); a defaulted
\* message is that value; status does not change once message is assigned;
\* and the object returned is the one the constructor as a whole yields.
C23_StatusBeforeMessage ==
    [][/\ (call.op = "body" /\ call.pc = "message") =>
           /\ Has(This, "status")
           /\ This.status = ResolvedStatus(call.arguments[1])
           /\ call'.op = "body" =>
                  /\ Has(heap'[call.ref].own, "message")
                  /\ heap'[call.ref].own.status = This.status
                  /\ ~Truthy(call.arguments[1], "message") =>
                         heap'[call.ref].own.message = This.status
       /\ (call.op = "body" /\ Has(This, "message") /\ call'.op = "body") =>
           /\ Has(This, "status")
           /\ heap'[call.ref].own.status = This.status
           /\ heap'[call.ref].own.message = This.message
       /\ (call.op = "body" /\ call'.op = "new" /\ ~call'.threw) =>
           heap'[call'.ref].own = Super(call.file, call.arguments).this]_vars

\* In new HttpError({statusCode: 999}) the lookup threw, the catch assigned
\* "Unknown", and the message statement after it has just assigned "Unknown".
C23_Witness ==
    /\ call.op = "body" /\ call.file = "errors"
    /\ call.arguments = <<[statusCode |-> 999]>>
    /\ call.pc = "statusCode"
    /\ This = [status |-> "Unknown", message |-> "Unknown"]

\* C21: with several callers constructing and reading in any interleaving,
\* every returned Outcome has exactly the fields the constructor yields for
\* its own options alone, and whatever a reader read from an Outcome, at any
\* earlier moment, is what the Outcome holds now and what it was constructed
\* with.
C21_SharedOutcomesStable ==
    /\ \A i \in 1..Len(heap) :
          heap[i].returned =>
              /\ ~HttpResponse(heap[i].from).threw
              /\ heap[i].own = HttpResponse(heap[i].from).this
    /\ \A c \in Callers :
          Has(call.at[c], "seen") =>
              /\ call.at[c].seen.own = heap[call.at[c].seen.ref].own
              /\ call.at[c].seen.own =
                     HttpResponse(heap[call.at[c].seen.ref].from).this

\* The second construction to start has returned while the first is still
\* between its status and its message statement, and the caller holding the
\* returned Outcome, of the unregistered code 999, has read it.
C21_Witness ==
    /\ Len(heap) = 2
    /\ ~heap[1].returned /\ Has(heap[1].own, "status")
    /\ ~Has(heap[1].own, "message")
    /\ heap[2].returned
    /\ heap[2].own = [statusCode |-> 999, status |-> "Unknown",
                      message |-> "Unknown"]
    /\ \E c \in Callers :
          /\ call.at[c].pc = "holds" /\ call.at[c].ref = 2
          /\ Has(call.at[c], "seen")
          /\ call.at[c].seen = [ref |-> 2, own |-> heap[2].own]

====
